---- MODULE Spec2Model ----
(***************************************************************************)
(* Model of the GM60 barcode scanner driver (driver/gm60_micropython.py): *)
(* the register request/response engine (_process_packet), the CRC-16     *)
(* (_check_crc16), the frame codec and the register API built on them.    *)
(*                                                                         *)
(* Python values are modelled by what they are: a byte is an integer in   *)
(* 0..255, a str is a sequence of one-character strings, a list is a      *)
(* sequence.  hex(), bin(), int() and the '#0Nx' format are modelled by   *)
(* the text they produce or parse (int() of a prefixed literal is the     *)
(* MicroPython port's behaviour, which the driver relies on).             *)
(***************************************************************************)
EXTENDS Integers, Sequences, FiniteSets, TLC

VARIABLES
    pc,          \* phase of the register call in progress
    call,        \* the API call in progress (or the last one made)
    packet,      \* the command frame built for the call
    txlog,       \* frames written to the channel during the call
    txdone,      \* the channel's transmit-complete flag
    rxbuf,       \* bytes the channel holds for the next read()
    devpending,  \* the device still owes a reply to the last frame written
    polls,       \* drain polls that found the transmitter busy
    sleeps,      \* the time.sleep_ms / time.sleep delays of the call, in order
    reads,       \* what each read() of the call returned, in order
    response,    \* the local variable response of _process_packet
    diag,        \* the diagnostic printed by _process_packet
    raised,      \* the exception that ended the call ("none" if none)
    returned,    \* the value _process_packet returned
    result,      \* the value handed back to the caller of the API call
    rxorigin,    \* why the device sent the bytes in rxbuf ("none" if empty)
    resporigin,  \* why the device sent the bytes now in response
    sensor,      \* the read_sensor call: its state, chunks, sleeps and outcome
    crc_data,    \* _check_crc16 run on its own: the input
    crc_i,       \* ... the number of bytes consumed
    crc_acc,     \* ... the running crc
    crc_idx,     \* ... the table indexes used so far
    crc_out      \* ... the returned list (<<>> until the loop is over)

vars == <<pc, call, packet, txlog, txdone, rxbuf, devpending, polls, sleeps,
          reads, response, diag, raised, returned, result,
          rxorigin, resporigin, sensor,
          crc_data, crc_i, crc_acc, crc_idx, crc_out>>

drvvars == <<pc, call, packet, txlog, txdone, rxbuf, devpending, polls,
             sleeps, reads, response, diag, raised, returned, result,
             rxorigin, resporigin, sensor>>

crcvars == <<crc_data, crc_i, crc_acc, crc_idx, crc_out>>

----------------------------------------------------------------------------
(* Bounds of the model *)

MaxCount == 2      \* largest register_read_amount drawn for get_register_settings
MaxPayload == 5    \* longest payload in a framed device reply
MaxPolls == 1      \* busy drain polls counted before the counter saturates
MaxCrcLen == 3     \* longest input of the stand-alone _check_crc16 runs
MaxVerifyLen == 2  \* longest byte sequence of the CRC round trips
MaxChunks == 2     \* barcode chunks the scanner sends during one read_sensor

Byte == 0..255

----------------------------------------------------------------------------
(* Integer and text primitives of the Python runtime *)

\* a ^ b on non-negative integers, bit by bit
XorBits[a \in Nat, b \in Nat] ==
    IF a = 0 THEN b
    ELSE IF b = 0 THEN a
    ELSE (((a % 2) + (b % 2)) % 2) + 2 * XorBits[a \div 2, b \div 2]

Xor(a, b) == XorBits[a, b]

HexDigits == <<"0", "1", "2", "3", "4", "5", "6", "7",
               "8", "9", "a", "b", "c", "d", "e", "f">>

RECURSIVE Digits(_, _)
Digits(n, base) ==
    IF n < base THEN <<HexDigits[n + 1]>>
    ELSE Append(Digits(n \div base, base), HexDigits[(n % base) + 1])

\* hex(n) for n >= 0: '0x' and the digits, lower case, no padding
Hex(n) == <<"0", "x">> \o Digits(n, 16)

\* bin(n) for n >= 0
Bin(n) == <<"0", "b">> \o Digits(n, 2)

RECURSIVE Zeros(_)
Zeros(k) == IF k <= 0 THEN <<>> ELSE <<"0">> \o Zeros(k - 1)

\* format(n, '#0{width}x'): '0x' prefix, zero padded to width characters
FormatHex(n, width) ==
    LET d == Digits(n, 16)
    IN  <<"0", "x">> \o Zeros(width - 2 - Len(d)) \o d

\* format(n, '0{width}d')
FormatDec(n, width) ==
    LET d == Digits(n, 10)
    IN  Zeros(width - Len(d)) \o d

DigitValue(c) == CHOOSE v \in 0..15 : HexDigits[v + 1] = c

RECURSIVE ParseDigits(_, _)
ParseDigits(s, base) ==
    IF s = <<>> THEN 0
    ELSE ParseDigits(SubSeq(s, 1, Len(s) - 1), base) * base + DigitValue(s[Len(s)])

\* int(s) of a literal with an optional 0x / 0b prefix
ParseInt(s) ==
    IF Len(s) > 2 /\ s[1] = "0" /\ s[2] = "x" THEN ParseDigits(SubSeq(s, 3, Len(s)), 16)
    ELSE IF Len(s) > 2 /\ s[1] = "0" /\ s[2] = "b" THEN ParseDigits(SubSeq(s, 3, Len(s)), 2)
    ELSE ParseDigits(s, 10)

ClampIndex(i, n) ==
    IF i < 0 THEN (IF i + n < 0 THEN 0 ELSE i + n)
    ELSE IF i > n THEN n ELSE i

\* s[a:b] with Python's 0-based, clamped, negative-from-the-end indexes
PySlice(s, a, b) ==
    LET lo == ClampIndex(a, Len(s))
        hi == ClampIndex(b, Len(s))
    IN  IF hi <= lo THEN <<>> ELSE SubSeq(s, lo + 1, hi)

MapSeq(Op(_), s) == [i \in 1..Len(s) |-> Op(s[i])]

\* b''.join(chunks)
JoinBytes(chunks) ==
    LET acc[k \in 0..Len(chunks)] ==
            IF k = 0 THEN <<>> ELSE acc[k - 1] \o chunks[k]
    IN  acc[Len(chunks)]

\* bytes.decode('utf-8'): the continuation bytes a lead byte announces
\* (-1 for a byte that cannot start a character)
Utf8Need(c) ==
    IF c < 128 THEN 0
    ELSE IF c < 192 THEN -1
    ELSE IF c < 224 THEN 1
    ELSE IF c < 240 THEN 2
    ELSE IF c < 248 THEN 3
    ELSE -1

Utf8IsCont(c) == c >= 128 /\ c < 192

\* the decoder accepts the bytes: every lead byte is followed by the
\* continuation bytes it announces, and nothing else is a continuation byte
Utf8Valid(bytes) ==
    LET need[k \in 0..Len(bytes)] ==
            IF k = 0 THEN 0
            ELSE IF need[k - 1] = -1 THEN -1
            ELSE IF need[k - 1] > 0
                 THEN (IF Utf8IsCont(bytes[k]) THEN need[k - 1] - 1 ELSE -1)
            ELSE Utf8Need(bytes[k])
    IN  need[Len(bytes)] = 0

\* the character that starts at position i of valid UTF-8 bytes
Utf8CodePointAt(bytes, i) ==
    CASE Utf8Need(bytes[i]) = 0 -> bytes[i]
      [] Utf8Need(bytes[i]) = 1 ->
             (bytes[i] - 192) * 64 + (bytes[i + 1] - 128)
      [] Utf8Need(bytes[i]) = 2 ->
             (bytes[i] - 224) * 4096 + (bytes[i + 1] - 128) * 64
                + (bytes[i + 2] - 128)
      [] OTHER ->
             (bytes[i] - 240) * 262144 + (bytes[i + 1] - 128) * 4096
                + (bytes[i + 2] - 128) * 64 + (bytes[i + 3] - 128)

\* the characters (code points) of valid UTF-8 bytes
Utf8Decode(bytes) ==
    LET starts == SelectSeq([i \in 1..Len(bytes) |-> i],
                            LAMBDA i : ~Utf8IsCont(bytes[i]))
    IN  [j \in 1..Len(starts) |-> Utf8CodePointAt(bytes, starts[j])]

----------------------------------------------------------------------------
(* _check_crc16 *)

table == <<
    0, 4129, 8258, 12387, 16516, 20645, 24774, 28903,
    33032, 37161, 41290, 45419, 49548, 53677, 57806, 61935,
    4657, 528, 12915, 8786, 21173, 17044, 29431, 25302,
    37689, 33560, 45947, 41818, 54205, 50076, 62463, 58334,
    9314, 13379, 1056, 5121, 25830, 29895, 17572, 21637,
    42346, 46411, 34088, 38153, 58862, 62927, 50604, 54669,
    13907, 9842, 5649, 1584, 30423, 26358, 22165, 18100,
    46939, 42874, 38681, 34616, 63455, 59390, 55197, 51132,
    18628, 22757, 26758, 30887, 2112, 6241, 10242, 14371,
    51660, 55789, 59790, 63919, 35144, 39273, 43274, 47403,
    23285, 19156, 31415, 27286, 6769, 2640, 14899, 10770,
    56317, 52188, 64447, 60318, 39801, 35672, 47931, 43802,
    27814, 31879, 19684, 23749, 11298, 15363, 3168, 7233,
    60846, 64911, 52716, 56781, 44330, 48395, 36200, 40265,
    32407, 28342, 24277, 20212, 15891, 11826, 7761, 3696,
    65439, 61374, 57309, 53244, 48923, 44858, 40793, 36728,
    37256, 33193, 45514, 41451, 53516, 49453, 61774, 57711,
    4224, 161, 12482, 8419, 20484, 16421, 28742, 24679,
    33721, 37784, 41979, 46042, 49981, 54044, 58239, 62302,
    689, 4752, 8947, 13010, 16949, 21012, 25207, 29270,
    46570, 42443, 38312, 34185, 62830, 58703, 54572, 50445,
    13538, 9411, 5280, 1153, 29798, 25671, 21540, 17413,
    42971, 47098, 34713, 38840, 59231, 63358, 50973, 55100,
    9939, 14066, 1681, 5808, 26199, 30326, 17941, 22068,
    55628, 51565, 63758, 59695, 39368, 35305, 47498, 43435,
    22596, 18533, 30726, 26663, 6336, 2273, 14466, 10403,
    52093, 56156, 60223, 64286, 35833, 39896, 43963, 48026,
    19061, 23124, 27191, 31254, 2801, 6864, 10931, 14994,
    64814, 60687, 56684, 52557, 48554, 44427, 40424, 36297,
    31782, 27655, 23652, 19525, 15522, 11395, 7392, 3265,
    61215, 65342, 53085, 57212, 44955, 49082, 36825, 40952,
    28183, 32310, 20053, 24180, 11923, 16050, 3793, 7920
>>

\* a slip: the low byte of the running crc selects the table entry
CrcIndexLowByte(crc, byte) == Xor(crc % 256, byte)

\* the table index of one loop iteration: (crc >> 8) ^ byte
CrcIndex(crc, byte) == Xor(crc \div 256, byte)

\* one loop iteration: crc = (crc << 8) ^ table[...]; crc &= 0xFFFF
CrcStep(crc, byte) == Xor(crc * 256, table[CrcIndex(crc, byte) + 1]) % 65536

CrcStepAt[crc \in Nat, byte \in Nat] == CrcStep(crc, byte)

\* the loop: the running crc after each byte of data, in order
CrcLoop(crc, data) ==
    LET acc[k \in 0..Len(data)] ==
            IF k = 0 THEN crc ELSE CrcStepAt[acc[k - 1], data[k]]
    IN  acc[Len(data)]

\* a slip: the two bytes are returned low byte first
CrcFormatLowFirst(crc) ==
    LET text == FormatHex(crc, 6)
    IN  << <<"0", "x">> \o PySlice(text, 4, 6), <<"0", "x">> \o PySlice(text, 2, 4) >>

\* the output formatting: '0x0141' -> ['0x01', '0x41']
CrcFormat(crc) ==
    LET text == FormatHex(crc, 6)
    IN  << <<"0", "x">> \o PySlice(text, 2, 4), <<"0", "x">> \o PySlice(text, 4, 6) >>

check_crc16(data) == CrcFormat(CrcLoop(0, data))

----------------------------------------------------------------------------
(* Values handed to the caller carry their Python type *)

PyStr(s) == [type |-> "str", val |-> s]

\* a str that came out of bytes.decode: its characters as code points
PyText(codepoints) == [type |-> "str", codepoints |-> codepoints]

NoneValue == [kind |-> "None"]

REG_RESET_FACTORY_SETTINGS == 217    \* 0x00D9

ACK == 2                             \* hex(0x02), the expected first byte

----------------------------------------------------------------------------
(* The calls the application makes and the replies the device may send *)

AddrSample == {0, 4779, 65535}       \* 0x0000, 0x12AB, 0xFFFF

ValueSample == {99, 142}             \* 0x63, 0b10001110

Calls ==
      { [op |-> "get_register_settings", addr |-> a, param |-> c] :
            a \in AddrSample, c \in 0..MaxCount }
 \cup { [op |-> "set_register_settings", addr |-> a, param |-> v] :
            a \in AddrSample, v \in ValueSample }
 \cup { [op |-> "get_version", addr |-> 225, param |-> 5],
        [op |-> "reset_to_factory_defaults",
         addr |-> REG_RESET_FACTORY_SETTINGS, param |-> 85] }

NoCall == [op |-> "none", addr |-> 0, param |-> 0]

ReadOps == {"get_register_settings", "get_version"}

\* CRC-16/CCITT as the device computes it: bit by bit, MSB first,
\* polynomial 0x1021, initial value 0x0000
RefShift[crc \in Nat, n \in Nat] ==
    IF n = 0 THEN crc
    ELSE RefShift[IF crc >= 32768 THEN XorBits[(crc * 2) % 65536, 4129]
                  ELSE (crc * 2) % 65536, n - 1]

RefByte[crc \in Nat, byte \in Nat] == RefShift[XorBits[crc, byte * 256], 8]

RefCrc(crc, data) ==
    LET acc[k \in 0..Len(data)] ==
            IF k = 0 THEN crc ELSE RefByte[acc[k - 1], data[k]]
    IN  acc[Len(data)]

RefCrcBytes(data) == LET crc == RefCrc(0, data) IN << crc \div 256, crc % 256 >>

PayloadBase == <<5, 10, 22, 3, 15, 142, 255, 0>>

Payloads == { SubSeq(PayloadBase, 1, n) : n \in 0..MaxPayload }

\* the part of a reply its CRC covers (bytes[2:-2])
Covered == { <<>>, <<0>> } \cup { <<0, Len(p)>> \o p : p \in Payloads }

Tampered(b) == { (b + 1) % 256, 255 - b }

CrcVariants(c) ==
    { c } \cup { <<t, c[2]>> : t \in Tampered(c[1]) }
          \cup { <<c[1], t>> : t \in Tampered(c[2]) }

FramedReplies ==
      UNION { { <<ACK, 0>> \o c \o v : v \in CrcVariants(RefCrcBytes(c)) } :
                  c \in Covered }
 \cup { <<0, 0>> \o c \o RefCrcBytes(c) : c \in Covered }
 \cup { <<0, 0>> \o c \o <<(RefCrcBytes(c)[1] + 1) % 256, RefCrcBytes(c)[2]>> :
            c \in Covered }

ShortReplies ==
    UNION { [1..n -> {0, ACK}] : n \in 1..3 }

Replies == FramedReplies \cup ShortReplies

\* replies that arrive after the call that asked for them has stopped reading
LateReplies == { <<ACK, 0, 0, 1, 5>> \o RefCrcBytes(<<0, 1, 5>>), <<0, 0>> }

InExchange == pc \in {"AwaitingDrain", "Reading1", "ReadingRetry"}

\* read_sensor not running: nothing read, nothing returned
SensorIdle ==
    [state |-> "idle", chunks |-> <<>>, naps |-> <<>>,
     result |-> NoneValue, raised |-> "none"]

\* what the scanner sends unasked when it has read a barcode: "42", and the
\* two bytes of one character (U+00E9) arriving apart
BarcodeSample == { <<52, 50>>, <<195>>, <<169>> }

----------------------------------------------------------------------------
(* Frame construction: _read_register (lines 91-97) and                    *)
(* set_register_settings (lines 109-115)                                    *)

read_register_packet(register_address_start, register_read_amount) ==
    <<126, 0, 7, 1,
      register_address_start \div 256, register_address_start % 256,
      register_read_amount>>

set_register_packet(register_address, value) ==
    <<126, 0, 8, 1, register_address \div 256, register_address % 256, value>>

CallPacket(c) ==
    IF c.op \in ReadOps THEN read_register_packet(c.addr, c.param)
    ELSE set_register_packet(c.addr, c.param)

\* a slip: every call asks for the response
return_response_always(c) == TRUE

return_response(c) == c.op \in ReadOps

\* a slip: the header is not discarded, the CRC covers the whole packet
AppendCrcWithHeader(p) ==
    LET send_crc == check_crc16(p)
    IN  p \o <<ParseInt(send_crc[1]), ParseInt(send_crc[2])>>

\* _process_packet lines 129-132: the CRC over packet[2:] is appended
AppendCrc(p) ==
    LET send_crc == check_crc16(PySlice(p, 2, Len(p)))
    IN  p \o <<ParseInt(send_crc[1]), ParseInt(send_crc[2])>>

\* the frame each call of the model sends
FrameOf == [c \in Calls |-> AppendCrc(CallPacket(c))]

----------------------------------------------------------------------------
(* Response validation: _process_packet lines 150-171 *)

\* line 150: response = list(map(hex, response))
HexList(resp) == MapSeq(Hex, resp)

Pad4(item) == FormatHex(ParseInt(item), 4)

\* a slip: the received CRC bytes are compared as hex() gave them, unpadded
received_crc_unpadded(resp) == PySlice(HexList(resp), -2, Len(resp))

\* lines 153-155
received_crc(resp) == MapSeq(Pad4, PySlice(HexList(resp), -2, Len(resp)))

\* lines 158-159: the list of ints is built, then handed to _check_crc16
expected_crc(resp) ==
    CHOOSE crc \in { check_crc16(data) :
                       data \in { MapSeq(ParseInt, PySlice(HexList(resp), 2, -2)) } } :
        TRUE

\* a slip: only the high CRC byte is compared
CrcOkHighByteOnly(resp) == received_crc(resp)[1] = expected_crc(resp)[1]

CrcOk(resp) == received_crc(resp) = expected_crc(resp)

\* a slip: the ack marker is not looked at
AckOkUnchecked(resp) == TRUE

\* line 166
AckOk(resp) == HexList(resp)[1] = Hex(ACK)

\* a slip: the ack marker is checked before the CRC
VerdictAckFirst(resp) ==
    IF resp = <<>> THEN "NoResponse"
    ELSE IF ~AckOk(resp) THEN "NoResponse"
    ELSE IF ~CrcOk(resp) THEN "ChecksumError"
    ELSE "Accepted"

\* the outcome of lines 145-171 on the response read
Verdict(resp) ==
    IF resp = <<>> THEN "NoResponse"
    ELSE IF ~CrcOk(resp) THEN "ChecksumError"
    ELSE IF ~AckOk(resp) THEN "NoResponse"
    ELSE "Accepted"

----------------------------------------------------------------------------
(* The register API on an accepted response *)

Ratio(n, d) == [num |-> n, den |-> d]

\* get_version lines 39-47, response being the list _read_register returned
version_information(resp) ==
    LET r == HexList(resp)
    IN  [kind |-> "dict",
         hardware |-> Ratio(ParseInt(r[5]), 100),
         software |-> Ratio(ParseInt(r[6]), 100),
         software_date |->
             PyStr(FormatDec(ParseInt(r[7]) + 2000, 4) \o <<"-">>
                   \o FormatDec(ParseInt(r[8]), 2) \o <<"-">>
                   \o FormatDec(ParseInt(r[9]), 2))]

BinOfItem(item) == PyStr(Bin(ParseInt(item)))

\* a slip: the payload is sliced one position early
register_settings_off_by_one(resp, register_read_amount) ==
    LET data == PySlice(HexList(resp), 3, 3 + register_read_amount)
    IN  [kind |-> "tuple",
         data |-> MapSeq(PyStr, data),
         data_bin |-> MapSeq(BinOfItem, data)]

\* get_register_settings lines 60-66
register_settings(resp, register_read_amount) ==
    LET data == PySlice(HexList(resp), 4, 4 + register_read_amount)
    IN  [kind |-> "tuple",
         data |-> MapSeq(PyStr, data),
         data_bin |-> MapSeq(BinOfItem, data)]

----------------------------------------------------------------------------
(* The driver *)

Init ==
    /\ pc = "Idle"
    /\ call = NoCall
    /\ packet = <<>>
    /\ txlog = <<>>
    /\ txdone = TRUE
    /\ rxbuf = <<>>
    /\ devpending = FALSE
    /\ polls = 0
    /\ sleeps = <<>>
    /\ reads = <<>>
    /\ response = <<>>
    /\ diag = "none"
    /\ raised = "none"
    /\ returned = NoneValue
    /\ result = NoneValue
    /\ rxorigin = "none"
    /\ resporigin = "none"
    /\ sensor = SensorIdle
    /\ crc_data = <<>>
    /\ crc_i = 0
    /\ crc_acc = 0
    /\ crc_idx = <<>>
    /\ crc_out = <<>>

\* An API call is entered: the frame is built and its CRC appended
\* (lines 27-29, 38, 59, 91-99, 109-117, 129-132)
Enter(c) ==
    /\ pc = "Idle"
    /\ sensor.state # "polling"
    /\ pc' = "Sending"
    /\ call' = c
    /\ packet' = FrameOf[c]
    /\ txlog' = <<>>
    /\ polls' = 0
    /\ sleeps' = <<>>
    /\ reads' = <<>>
    /\ response' = <<>>
    /\ diag' = "none"
    /\ raised' = "none"
    /\ returned' = NoneValue
    /\ result' = NoneValue
    /\ UNCHANGED <<txdone, rxbuf, devpending>>
    /\ resporigin' = "none"
    /\ UNCHANGED rxorigin
    /\ sensor' = SensorIdle
    /\ UNCHANGED crcvars

\* line 133: self._serialport.write(bytes(packet))
Write ==
    /\ pc = "Sending"
    /\ pc' = "AwaitingDrain"
    /\ txlog' = Append(txlog, packet)
    /\ txdone' = FALSE
    /\ devpending' = TRUE
    /\ UNCHANGED <<call, packet, rxbuf, polls, sleeps, reads, response, diag,
                   raised, returned, result>>
    /\ UNCHANGED <<rxorigin, resporigin>>
    /\ UNCHANGED sensor
    /\ UNCHANGED crcvars

\* a slip: the drain loop gives up after MaxPolls busy polls
DrainPollGivesUp ==
    /\ pc = "AwaitingDrain"
    /\ ~txdone
    /\ IF polls < MaxPolls
       THEN polls' = polls + 1 /\ UNCHANGED <<pc, sleeps>>
       ELSE pc' = "Reading1" /\ sleeps' = Append(sleeps, 200) /\ UNCHANGED polls
    /\ UNCHANGED <<call, packet, txlog, txdone, rxbuf, devpending,
                   reads, response, diag, raised, returned, result>>
    /\ UNCHANGED <<rxorigin, resporigin>>
    /\ UNCHANGED sensor
    /\ UNCHANGED crcvars

\* lines 136-137: the transmitter is still busy, sleep 50 ms and poll again
DrainPoll ==
    /\ pc = "AwaitingDrain"
    /\ ~txdone
    /\ polls' = IF polls < MaxPolls THEN polls + 1 ELSE polls
    /\ UNCHANGED <<pc, call, packet, txlog, txdone, rxbuf, devpending, sleeps,
                   reads, response, diag, raised, returned, result>>
    /\ UNCHANGED <<rxorigin, resporigin>>
    /\ UNCHANGED sensor
    /\ UNCHANGED crcvars

\* a slip: the drain loop is left without looking at txdone()
DrainDoneUnchecked ==
    /\ pc = "AwaitingDrain"
    /\ pc' = "Reading1"
    /\ sleeps' = Append(sleeps, 200)
    /\ UNCHANGED <<call, packet, txlog, txdone, rxbuf, devpending, polls,
                   reads, response, diag, raised, returned, result>>
    /\ UNCHANGED <<rxorigin, resporigin>>
    /\ UNCHANGED sensor
    /\ UNCHANGED crcvars

\* lines 136, 138: txdone() is true, the loop ends, sleep 200 ms
DrainDone ==
    /\ pc = "AwaitingDrain"
    /\ txdone
    /\ pc' = "Reading1"
    /\ sleeps' = Append(sleeps, 200)
    /\ UNCHANGED <<call, packet, txlog, txdone, rxbuf, devpending, polls,
                   reads, response, diag, raised, returned, result>>
    /\ UNCHANGED <<rxorigin, resporigin>>
    /\ UNCHANGED sensor
    /\ UNCHANGED crcvars

\* a slip: the retry is taken whatever the first read returned
Read1AlwaysRetry ==
    /\ pc = "Reading1"
    /\ response' = rxbuf
    /\ reads' = Append(reads, rxbuf)
    /\ rxbuf' = <<>>
    /\ pc' = "ReadingRetry"
    /\ UNCHANGED <<call, packet, txlog, txdone, devpending, polls, sleeps,
                   diag, raised, returned, result>>
    /\ resporigin' = rxorigin
    /\ rxorigin' = "none"
    /\ UNCHANGED sensor
    /\ UNCHANGED crcvars

\* lines 139-141: the first read
Read1 ==
    /\ pc = "Reading1"
    /\ response' = rxbuf
    /\ reads' = Append(reads, rxbuf)
    /\ rxbuf' = <<>>
    /\ pc' = IF rxbuf = <<>> THEN "ReadingRetry" ELSE "Validating"
    /\ UNCHANGED <<call, packet, txlog, txdone, devpending, polls, sleeps,
                   diag, raised, returned, result>>
    /\ resporigin' = rxorigin
    /\ rxorigin' = "none"
    /\ UNCHANGED sensor
    /\ UNCHANGED crcvars

\* a slip: the retry reads but its result is not assigned to response
Read2Dropped ==
    /\ pc = "ReadingRetry"
    /\ sleeps' = Append(sleeps, 500)
    /\ reads' = Append(reads, rxbuf)
    /\ rxbuf' = <<>>
    /\ pc' = "Validating"
    /\ UNCHANGED <<call, packet, txlog, txdone, devpending, polls, response,
                   diag, raised, returned, result>>
    /\ rxorigin' = "none"
    /\ UNCHANGED resporigin
    /\ UNCHANGED sensor
    /\ UNCHANGED crcvars

\* lines 142-143: sleep 500 ms and read once more
Read2 ==
    /\ pc = "ReadingRetry"
    /\ sleeps' = Append(sleeps, 500)
    /\ response' = rxbuf
    /\ reads' = Append(reads, rxbuf)
    /\ rxbuf' = <<>>
    /\ pc' = "Validating"
    /\ UNCHANGED <<call, packet, txlog, txdone, devpending, polls,
                   diag, raised, returned, result>>
    /\ resporigin' = rxorigin
    /\ rxorigin' = "none"
    /\ UNCHANGED sensor
    /\ UNCHANGED crcvars

\* lines 145-171
Validate ==
    /\ pc = "Validating"
    /\ \E v \in {Verdict(response)} :
           /\ pc' = IF v = "Accepted" THEN "Success" ELSE "Failed"
           /\ diag' = IF v = "Accepted" THEN "none" ELSE v
           /\ raised' = IF v = "Accepted" THEN "none" ELSE "CommError"
           /\ returned' = IF v = "Accepted" /\ return_response(call)
                          THEN [kind |-> "list",
                                items |-> MapSeq(PyStr, HexList(response))]
                          ELSE NoneValue
    /\ UNCHANGED <<call, packet, txlog, txdone, rxbuf, devpending, polls,
                   sleeps, reads, response, result>>
    /\ UNCHANGED <<rxorigin, resporigin>>
    /\ UNCHANGED sensor
    /\ UNCHANGED crcvars

\* a slip: the reset sleeps its settle period whether the exchange succeeded
\* or not (as a try/finally would)
ReturnSettlesAlways ==
    /\ pc \in {"Success", "Failed"}
    /\ pc' = "Idle"
    /\ IF call.op = "reset_to_factory_defaults"
       THEN /\ sleeps' = Append(sleeps, 3000)
            /\ UNCHANGED <<raised, result>>
       ELSE IF pc = "Failed"
       THEN UNCHANGED <<raised, result, sleeps>>
       ELSE CASE call.op = "get_version" ->
                    /\ raised' = IF Len(response) < 9 THEN "IndexError" ELSE "none"
                    /\ result' = IF Len(response) < 9 THEN NoneValue
                                 ELSE version_information(response)
                    /\ UNCHANGED sleeps
              [] call.op = "get_register_settings" ->
                    /\ result' = register_settings(response, call.param)
                    /\ UNCHANGED <<raised, sleeps>>
              [] OTHER -> UNCHANGED <<raised, result, sleeps>>
    /\ UNCHANGED <<call, packet, txlog, txdone, rxbuf, devpending, polls,
                   reads, response, diag, returned>>
    /\ UNCHANGED <<rxorigin, resporigin>>
    /\ UNCHANGED sensor
    /\ UNCHANGED crcvars

\* _process_packet is over: the API call completes or the error propagates
\* (lines 30, 39-49, 60-66)
Return ==
    /\ pc \in {"Success", "Failed"}
    /\ pc' = "Idle"
    /\ IF pc = "Failed"
       THEN UNCHANGED <<raised, result, sleeps>>
       ELSE CASE call.op = "get_version" ->
                    /\ raised' = IF Len(response) < 9 THEN "IndexError" ELSE "none"
                    /\ result' = IF Len(response) < 9 THEN NoneValue
                                 ELSE version_information(response)
                    /\ UNCHANGED sleeps
              [] call.op = "get_register_settings" ->
                    /\ result' = register_settings(response, call.param)
                    /\ UNCHANGED <<raised, sleeps>>
              [] call.op = "reset_to_factory_defaults" ->
                    /\ sleeps' = Append(sleeps, 3000)
                    /\ UNCHANGED <<raised, result>>
              [] OTHER -> UNCHANGED <<raised, result, sleeps>>
    /\ UNCHANGED <<call, packet, txlog, txdone, rxbuf, devpending, polls,
                   reads, response, diag, returned>>
    /\ UNCHANGED <<rxorigin, resporigin>>
    /\ UNCHANGED sensor
    /\ UNCHANGED crcvars

\* the UART finishes shifting out the frame
TxComplete ==
    /\ ~txdone
    /\ txdone' = TRUE
    /\ UNCHANGED <<pc, call, packet, txlog, rxbuf, devpending, polls, sleeps,
                   reads, response, diag, raised, returned, result>>
    /\ UNCHANGED <<rxorigin, resporigin>>
    /\ UNCHANGED sensor
    /\ UNCHANGED crcvars

\* the scanner answers the frame it received
DeviceReply(r) ==
    /\ devpending
    /\ InExchange \/ r \in LateReplies
    /\ rxbuf = <<>>
    /\ rxbuf' = r
    /\ devpending' = FALSE
    /\ UNCHANGED <<pc, call, packet, txlog, txdone, polls, sleeps,
                   reads, response, diag, raised, returned, result>>
    /\ rxorigin' = IF InExchange THEN "reply" ELSE "late"
    /\ UNCHANGED resporigin
    /\ UNCHANGED sensor
    /\ UNCHANGED crcvars

\* read_sensor is entered (line 75); no register call is in progress
EnterSensor ==
    /\ pc = "Idle"
    /\ sensor.state # "polling"
    /\ sensor' = [SensorIdle EXCEPT !.state = "polling"]
    /\ call' = NoCall
    /\ packet' = <<>>
    /\ txlog' = <<>>
    /\ polls' = 0
    /\ sleeps' = <<>>
    /\ reads' = <<>>
    /\ response' = <<>>
    /\ diag' = "none"
    /\ raised' = "none"
    /\ returned' = NoneValue
    /\ result' = NoneValue
    /\ resporigin' = "none"
    /\ UNCHANGED <<pc, txdone, rxbuf, devpending, rxorigin>>
    /\ UNCHANGED crcvars

\* lines 76-78: any() reports data, the chunk is read and kept, sleep 5 ms
SensorRead ==
    /\ sensor.state = "polling"
    /\ rxbuf # <<>>
    /\ sensor' = [sensor EXCEPT !.chunks = Append(@, rxbuf),
                                !.naps = Append(@, 5)]
    /\ rxbuf' = <<>>
    /\ rxorigin' = "none"
    /\ UNCHANGED <<pc, call, packet, txlog, txdone, devpending, polls, sleeps,
                   reads, response, diag, raised, returned, result,
                   resporigin>>
    /\ UNCHANGED crcvars

\* lines 76, 79-80: any() reports nothing, the loop ends; the chunks, if
\* any, are joined and decoded
SensorReturn ==
    /\ sensor.state = "polling"
    /\ rxbuf = <<>>
    /\ sensor' =
          IF sensor.chunks = <<>>
          THEN [sensor EXCEPT !.state = "returned"]
          ELSE IF Utf8Valid(JoinBytes(sensor.chunks))
          THEN [sensor EXCEPT !.state = "returned",
                              !.result = PyText(Utf8Decode(JoinBytes(sensor.chunks)))]
          ELSE [sensor EXCEPT !.state = "returned", !.raised = "UnicodeError"]
    /\ UNCHANGED <<pc, call, packet, txlog, txdone, rxbuf, devpending, polls,
                   sleeps, reads, response, diag, raised, returned, result,
                   rxorigin, resporigin>>
    /\ UNCHANGED crcvars

\* the scanner reads a barcode and sends it unasked; an arrival between two
\* calls is found by the next call as an arrival right after its entry is,
\* so arrivals are taken from the entry of a call to its last read
DeviceBarcode(b) ==
    /\ rxbuf = <<>>
    /\ pc = "Sending" \/ InExchange \/ sensor.state = "polling"
    /\ sensor.state = "polling" => Len(sensor.chunks) < MaxChunks
    /\ rxbuf' = b
    /\ rxorigin' = "barcode"
    /\ UNCHANGED <<pc, call, packet, txlog, txdone, devpending, polls, sleeps,
                   reads, response, diag, raised, returned, result,
                   resporigin>>
    /\ UNCHANGED sensor
    /\ UNCHANGED crcvars

Next ==
    \/ \E c \in Calls : Enter(c)
    \/ EnterSensor
    \/ SensorRead
    \/ SensorReturn
    \/ \E b \in BarcodeSample : DeviceBarcode(b)
    \/ Write
    \/ DrainPoll
    \/ DrainDone
    \/ Read1
    \/ Read2
    \/ Validate
    \/ Return
    \/ TxComplete
    \/ \E r \in Replies : DeviceReply(r)

Spec == Init /\ [][Next]_vars

\* the statements of _process_packet and of the method that called it
DriverStep ==
    Write \/ DrainPoll \/ DrainDone \/ Read1 \/ Read2 \/ Validate \/ Return

\* register calls against a scanner with few answers: the right reply to a
\* one-register read, one with a wrong CRC, one without the ack marker, and
\* none at all
LiveCalls ==
    { [op |-> "get_register_settings", addr |-> 0, param |-> 1],
      [op |-> "set_register_settings", addr |-> 0, param |-> 142],
      [op |-> "reset_to_factory_defaults",
       addr |-> REG_RESET_FACTORY_SETTINGS, param |-> 85] }

LiveReplies ==
    { <<ACK, 0, 0, 1, 5>> \o RefCrcBytes(<<0, 1, 5>>),
      <<ACK, 0, 0, 1, 5, 0, 0>>,
      <<0, 0>> }

LiveNext ==
    \/ \E c \in LiveCalls : Enter(c)
    \/ DriverStep
    \/ TxComplete
    \/ \E r \in LiveReplies : DeviceReply(r)

\* the driver is a sequential program that keeps running, and the UART
\* finishes shifting out every frame it was given
FairSpec ==
    Init /\ [][LiveNext]_vars /\ WF_vars(DriverStep) /\ WF_vars(TxComplete)

----------------------------------------------------------------------------
(* _check_crc16 run on its own, one loop iteration per step *)

CrcSample == {49, 255}               \* 0x31 ('1'), 0xFF

\* the nine ASCII bytes of "123456789"
KnownVector == <<49, 50, 51, 52, 53, 54, 55, 56, 57>>

\* inputs up to MaxCrcLen bytes: every byte value at every position, the
\* other positions filled from CrcSample; and the known vector
CrcInputs ==
    { <<>>, KnownVector } \cup
    UNION { { [i \in 1..n |-> IF i = p THEN b ELSE f[i]] :
                  p \in 1..n, b \in Byte, f \in [1..n -> CrcSample] } :
            n \in 1..MaxCrcLen }

InitCrc ==
    /\ pc = "Idle"
    /\ call = NoCall
    /\ packet = <<>>
    /\ txlog = <<>>
    /\ txdone = TRUE
    /\ rxbuf = <<>>
    /\ devpending = FALSE
    /\ polls = 0
    /\ sleeps = <<>>
    /\ reads = <<>>
    /\ response = <<>>
    /\ diag = "none"
    /\ raised = "none"
    /\ returned = NoneValue
    /\ result = NoneValue
    /\ rxorigin = "none"
    /\ resporigin = "none"
    /\ sensor = SensorIdle
    /\ crc_data \in CrcInputs
    /\ crc_i = 0
    /\ crc_acc = 0
    /\ crc_idx = <<>>
    /\ crc_out = <<>>

\* lines 206-208
CrcIterate ==
    /\ crc_i < Len(crc_data)
    /\ crc_out = <<>>
    /\ crc_idx' = Append(crc_idx, CrcIndex(crc_acc, crc_data[crc_i + 1]))
    /\ crc_acc' = CrcStep(crc_acc, crc_data[crc_i + 1])
    /\ crc_i' = crc_i + 1
    /\ UNCHANGED <<crc_data, crc_out>>
    /\ UNCHANGED drvvars

\* lines 211-214
CrcReturn ==
    /\ crc_i = Len(crc_data)
    /\ crc_out = <<>>
    /\ crc_out' = CrcFormat(crc_acc)
    /\ UNCHANGED <<crc_data, crc_i, crc_acc, crc_idx>>
    /\ UNCHANGED drvvars

NextCrc == CrcIterate \/ CrcReturn

SpecCrc == InitCrc /\ [][NextCrc]_vars

----------------------------------------------------------------------------
(* The CRC verification of lines 150-164 run on responses built from a byte
   sequence S and the checksum _check_crc16 returns for it *)

VerifySample == {0, 49, 128, 255}

\* every single byte, and the sequences over VerifySample up to MaxVerifyLen
VerifyInputs ==
    { <<b>> : b \in Byte } \cup
    UNION { [1..n -> VerifySample] : n \in 0..MaxVerifyLen }

\* the table indexes _check_crc16 goes through on data
CrcIndexes(data) ==
    [k \in 1..Len(data) |-> CrcIndex(CrcLoop(0, SubSeq(data, 1, k - 1)), data[k])]

\* S between the two header bytes and the two bytes of its checksum, as
\* lines 131-132 take them from the list _check_crc16 returned
PairedWith(S, crc) == <<ACK, 0>> \o S \o MapSeq(ParseInt, crc)

FlipBit(frame, i, k) == [frame EXCEPT ![i] = Xor(frame[i], 2 ^ k)]

\* the paired response and each response one bit of S or of the checksum away
VerifyFrames(S, crc) ==
    { PairedWith(S, crc) } \cup
    { FlipBit(PairedWith(S, crc), i, k) : i \in 3..(Len(S) + 4), k \in 0..7 }

VerifyCall == [op |-> "get_register_settings", addr |-> 0, param |-> 1]

\* _process_packet has read a response and is about to validate it
InitVerify ==
    /\ pc = "Validating"
    /\ call = VerifyCall
    /\ packet = FrameOf[VerifyCall]
    /\ txlog = <<FrameOf[VerifyCall]>>
    /\ txdone = TRUE
    /\ rxbuf = <<>>
    /\ devpending = FALSE
    /\ polls = 0
    /\ sleeps = <<200>>
    /\ crc_data \in VerifyInputs
    /\ crc_i = Len(crc_data)
    /\ crc_acc = CrcLoop(0, crc_data)
    /\ crc_idx = CrcIndexes(crc_data)
    /\ crc_out = check_crc16(crc_data)
    /\ response \in VerifyFrames(crc_data, crc_out)
    /\ reads = <<response>>
    /\ diag = "none"
    /\ raised = "none"
    /\ returned = NoneValue
    /\ result = NoneValue
    /\ rxorigin = "none"
    /\ resporigin = "reply"
    /\ sensor = SensorIdle

NextVerify == Validate \/ Return

SpecVerify == InitVerify /\ [][NextVerify]_vars

----------------------------------------------------------------------------
(* Vocabulary of the properties *)

\* _process_packet has run its validation (the call may have returned since)
Validated == pc \in {"Success", "Failed"} \/ (pc = "Idle" /\ call.op # "none")

Rejected == Validated /\ raised = "CommError"

Accepted == Validated /\ raised # "CommError"

\* the API call is over
Finished == pc = "Idle" /\ call.op # "none"

\* the CRC check as the protocol states it: the trailing two bytes are the
\* reference CRC of bytes[2:-2]
CrcPasses(r) ==
    /\ Len(r) >= 2
    /\ <<r[Len(r) - 1], r[Len(r)]>> = RefCrcBytes(PySlice(r, 2, -2))

AckPasses(r) == r # <<>> /\ r[1] = 2

WellFormed(r) == AckPasses(r) /\ CrcPasses(r)

----------------------------------------------------------------------------
(* Properties *)

\* C1: once _process_packet has validated, the call is accepted (no
\* CommError) exactly when the response is non-empty and passes BOTH the
\* CRC check over bytes[2:-2] and the ack-marker check on byte[0]; passing
\* only one of the two is always a rejection.
C1_BothChecksMandatory ==
    Validated =>
        /\ Accepted <=> (response # <<>> /\ CrcPasses(response) /\ AckPasses(response))
        /\ Accepted <=> (pc = "Success" \/ (pc = "Idle" /\ diag = "none"))

\* C1 witness: a response with a correct CRC but a wrong ack marker was rejected
C1_Witness ==
    /\ Rejected
    /\ Len(response) >= 5
    /\ CrcPasses(response)
    /\ ~AckPasses(response)

\* C2: when the first read is empty and the retry returns a well-formed
\* response, the call is accepted and hands back what that response alone
\* determines; when both reads are empty the call fails with the
\* no-response error and there is no third read.
C2_RetryOnce ==
    /\ Len(reads) <= 2
    /\ (Validated /\ Len(reads) = 2) =>
          /\ reads[1] = <<>>
          /\ response = reads[2]
          /\ WellFormed(reads[2]) =>
                /\ Accepted
                /\ diag = "none"
                /\ returned.kind = IF call.op \in ReadOps THEN "list" ELSE "None"
                /\ call.op \in ReadOps =>
                      returned.items = MapSeq(PyStr, MapSeq(Hex, reads[2]))
          /\ reads[2] = <<>> =>
                /\ Rejected
                /\ diag = "NoResponse"
                /\ returned.kind = "None"
                /\ result.kind = "None"

\* C2 witness: a read-type call succeeded on its retry read
C2_Witness ==
    /\ Finished
    /\ call.op = "get_register_settings"
    /\ Len(reads) = 2
    /\ reads[1] = <<>>
    /\ WellFormed(reads[2])
    /\ Accepted
    /\ result.kind = "tuple"

\* C3: a register call writes its frame exactly once and reads once or
\* twice: the second read happens iff the first returned no bytes, there is
\* no third read and no second write, whatever the outcome.
C3_OneWriteOneOrTwoReads ==
    /\ Len(txlog) <= 1
    /\ Len(reads) <= 2
    /\ pc \in {"Idle", "Sending"} /\ ~Finished => (txlog = <<>> /\ reads = <<>>)
    /\ pc \notin {"Idle", "Sending"} \/ Finished => txlog = <<packet>>
    /\ pc \in {"AwaitingDrain", "Reading1"} => reads = <<>>
    /\ pc = "ReadingRetry" => reads = << <<>> >>
    /\ (pc = "Validating" \/ Validated) =>
          /\ Len(reads) \in {1, 2}
          /\ Len(reads) = 2 <=> reads[1] = <<>>

\* C3 witness: a call that failed on a bad CRC after a single read and a
\* single write
C3_Witness ==
    /\ Finished
    /\ Rejected
    /\ diag = "ChecksumError"
    /\ Len(reads) = 1
    /\ Len(txlog) = 1

\* C4: a read-type call never succeeds or returns data when the response
\* it read has fewer than 4 + count + 2 bytes.
C4_ShortResponseRejected ==
    (Finished /\ call.op \in ReadOps /\ Len(response) < 4 + call.param + 2) =>
        /\ raised = "CommError"
        /\ result.kind = "None"

\* a response is an acceptable response with one trailing CRC byte replaced
\* by a different value (the bytes the CRC covers, bytes[2:-2], never
\* include the trailing two)
TamperedAcceptable(r) ==
    LET n == Len(r)
        Original(pos, v) == [r EXCEPT ![pos] = v]
    IN  /\ n >= 2
        /\ \E crc \in {RefCrcBytes(PySlice(r, 2, -2))} :
              \E pos \in {n - 1, n} :
                  \E v \in Byte \ {r[pos]} :
                      /\ Original(pos, v)[1] = 2
                      /\ Original(pos, v)[n - 1] = crc[1]
                      /\ Original(pos, v)[n] = crc[2]

\* C5: a response that is an acceptable response with either trailing CRC
\* byte replaced by a different value is rejected with CommError.
C5_TamperedCrcRejected ==
    (Validated /\ TamperedAcceptable(response)) =>
        /\ Rejected
        /\ returned.kind = "None"

\* C5 witness: a reply whose low CRC byte alone was tampered was rejected
C5_Witness ==
    /\ Rejected
    /\ Len(response) >= 7
    /\ AckPasses(response)
    /\ response[Len(response) - 1] = RefCrcBytes(PySlice(response, 2, -2))[1]
    /\ response[Len(response)] # RefCrcBytes(PySlice(response, 2, -2))[2]

\* the frame the protocol prescribes for a call
ExpectedFrame(c) ==
    LET L == IF c.op \in ReadOps THEN 7 ELSE 8
        body == <<L, 1, c.addr \div 256, c.addr % 256, c.param>>
    IN  <<126, 0>> \o body \o RefCrcBytes(body)

ExpectedFrames == [c \in Calls |-> ExpectedFrame(c)]

\* C6: every frame written is the 9 bytes
\* [0x7E, 0x00, L, 0x01, A_hi, A_lo, P, CRC_hi, CRC_lo], L = 0x07 for a read
\* and 0x08 for a write, the CRC being that of [L, 0x01, A_hi, A_lo, P].
C6_FrameLayout ==
    \A i \in 1..Len(txlog) :
        /\ Len(txlog[i]) = 9
        /\ txlog[i] = ExpectedFrames[call]
        /\ \A k \in 1..9 : txlog[i][k] \in Byte

\* C6 witness: a write frame for an address with distinct high and low bytes
C6_Witness ==
    /\ Len(txlog) = 1
    /\ call.op = "set_register_settings"
    /\ call.addr = 4779
    /\ txlog[1][3] = 8
    /\ txlog[1][5] = 18
    /\ txlog[1][6] = 171

\* the channel returned a valid response carrying count payload bytes
ValidReadResponse(r, count) == WellFormed(r) /\ Len(r) >= 4 + count + 2

\* the call in hand is a finished get_register_settings that read a valid
\* response for its count
RoundTripCase ==
    /\ Finished
    /\ call.op = "get_register_settings"
    /\ ValidReadResponse(response, call.param)

\* C7, as stated: get_register_settings returns exactly the C payload
\* byte values, in order, and a parallel sequence of their base-2 renderings.
C7_ReturnsPayloadValues ==
    RoundTripCase =>
        /\ result.kind = "tuple"
        /\ Len(result.data) = call.param
        /\ Len(result.data_bin) = call.param
        /\ \A i \in 1..call.param :
              /\ result.data[i].type = "int"
              /\ result.data[i].val = response[4 + i]
              /\ result.data_bin[i] = PyStr(Bin(response[4 + i]))

\* C7, amended: get_register_settings returns the C payload values, in
\* order, each as its base-16 text (hex(): '0x' and the lower-case digits,
\* unpadded), and a parallel sequence of their base-2 text (bin()).
C7_ReturnsPayloadAsHexText ==
    RoundTripCase =>
        /\ raised = "none"
        /\ result.kind = "tuple"
        /\ Len(result.data) = call.param
        /\ Len(result.data_bin) = call.param
        /\ \A i \in 1..call.param :
              /\ result.data[i].type = "str"
              /\ result.data[i].val = Hex(response[4 + i])
              /\ ParseDigits(SubSeq(result.data[i].val, 3, Len(result.data[i].val)), 16)
                    = response[4 + i]
              /\ result.data_bin[i] = PyStr(Bin(response[4 + i]))
              /\ ParseDigits(SubSeq(result.data_bin[i].val, 3,
                                    Len(result.data_bin[i].val)), 2)
                    = response[4 + i]

\* C7 witness: two registers read back from a valid 8-byte response
C7_Witness ==
    /\ RoundTripCase
    /\ call.param = 2
    /\ Len(response) = 8
    /\ Len(result.data) = 2
    /\ result.data[2].val = <<"0", "x", "a">>
    /\ result.data_bin[2].val = <<"0", "b", "1", "0", "1", "0">>

WriteOps == {"set_register_settings", "reset_to_factory_defaults"}

\* what C8 has in common with its amendment: only an accepted read-type
\* call hands anything back
OnlyReadSuccessReturns ==
    /\ returned.kind = IF Accepted /\ call.op \in ReadOps THEN "list" ELSE "None"
    /\ (call.op \in WriteOps \/ Rejected) => result.kind = "None"
    /\ ~Validated => (returned.kind = "None" /\ result.kind = "None")

C9_FailureKindsAsStated ==
    Validated =>
        /\ diag = "ChecksumError" =>
              (response # <<>> /\ AckPasses(response) /\ ~CrcPasses(response))
        /\ (response = <<>> \/ ~AckPasses(response)) => diag = "NoResponse"

\* C9, amended: the checksum failure is reported exactly for a non-empty
\* response whose CRC fails, whatever its first byte; the no-response failure
\* exactly when nothing was read after the retry, or the CRC passes and the
\* first byte is not 0x02.
C9_FailureKindsByCrcFirst ==
    Validated =>
        /\ diag = "ChecksumError" <=> (response # <<>> /\ ~CrcPasses(response))
        /\ diag = "NoResponse" <=>
              (response = <<>> \/ (CrcPasses(response) /\ ~AckPasses(response)))
        /\ diag # "none" <=> raised = "CommError"

\* C9 witness: a response failing both checks was reported as a checksum
\* failure
C9_Witness ==
    /\ Rejected
    /\ Len(response) >= 5
    /\ ~AckPasses(response)
    /\ ~CrcPasses(response)
    /\ diag = "ChecksumError"

\* the 256 table entries are the reference CRCs of their index bytes
TableIsReference ==
    /\ Len(table) = 256
    /\ \A k \in 0..255 : table[k + 1] = RefCrc(0, <<k>>)

\* C10: _check_crc16 returns, high byte first, the two bytes of the
\* reference CRC (MSB first, polynomial 0x1021, initial value 0x0000) of its
\* input: the table holds the reference CRC of each index byte, the running
\* value stays in 0..0xFFFF, every table index stays in 0..255, and the
\* empty input gives (0x00, 0x00).
C10_CrcIsReference ==
    /\ crc_acc \in 0..65535
    /\ crc_acc = RefCrc(0, SubSeq(crc_data, 1, crc_i))
    /\ \A j \in 1..Len(crc_idx) :
          /\ crc_idx[j] \in 0..255
          /\ table[crc_idx[j] + 1] = RefCrc(0, <<crc_idx[j]>>)
    /\ crc_data = <<>> => TableIsReference
    /\ crc_out # <<>> =>
          /\ crc_i = Len(crc_data)
          /\ Len(crc_out) = 2
          /\ crc_out[1] = FormatHex(RefCrcBytes(crc_data)[1], 4)
          /\ crc_out[2] = FormatHex(RefCrcBytes(crc_data)[2], 4)
          /\ Len(crc_out[1]) = 4 /\ Len(crc_out[2]) = 4
          /\ ParseDigits(SubSeq(crc_out[1], 3, 4), 16) * 256
                + ParseDigits(SubSeq(crc_out[2], 3, 4), 16) = RefCrc(0, crc_data)
          /\ crc_out = check_crc16(crc_data)
          /\ crc_data = <<>> =>
                crc_out = << <<"0", "x", "0", "0">>, <<"0", "x", "0", "0">> >>

\* C10 witness: a three-byte input whose CRC has a high byte below 0x10 was
\* returned
C10_Witness ==
    /\ Len(crc_data) = 3
    /\ crc_out # <<>>
    /\ crc_out[1][3] = "0"
    /\ crc_out[1][4] # "0"
    /\ crc_idx[3] > 127


----------------------------------------------------------------------------
(* C11: the known vector *)

\* _check_crc16 has returned for the input "123456789"
KnownVectorDone == crc_data = KnownVector /\ crc_out # <<>>

\* C11 as stated: the checksum of "123456789" is 0x29B1, returned as
\* (0x29, 0xB1)
C11_KnownVectorIs29B1 ==
    KnownVectorDone =>
        /\ crc_acc = 10673
        /\ MapSeq(ParseInt, crc_out) = <<41, 177>>

\* C11 amended: the checksum _check_crc16 computes over the nine ASCII bytes
\* of "123456789" is 0x31C3, returned as ('0x31', '0xc3'), the value of the
\* CRC with initial value 0x0000; 0x29B1 is not the result.
C11_KnownVectorIs31C3 ==
    KnownVectorDone =>
        /\ crc_acc = 12739
        /\ crc_out = << <<"0", "x", "3", "1">>, <<"0", "x", "c", "3">> >>
        /\ MapSeq(ParseInt, crc_out) = <<49, 195>>
        /\ MapSeq(ParseInt, crc_out) # <<41, 177>>

\* C11 witness: _check_crc16 has consumed the nine bytes and returned
C11_Witness ==
    /\ KnownVectorDone
    /\ crc_i = 9
    /\ Len(crc_idx) = 9

----------------------------------------------------------------------------
(* C12: the CRC round trip *)

\* the response made of S (crc_data) and the checksum computed for it
Intact == PairedWith(crc_data, crc_out)

PowersOfTwo == {1, 2, 4, 8, 16, 32, 64, 128}

\* r differs from the intact response in one bit of S or of the checksum
OneBitFlipped(r) ==
    /\ Len(r) = Len(Intact)
    /\ \E i \in 3..Len(r) :
          /\ Xor(r[i], Intact[i]) \in PowersOfTwo
          /\ \A j \in 1..Len(r) : j # i => r[j] = Intact[j]

\* C12: the CRC verification of _process_packet passes on a byte sequence S
\* paired with the checksum _check_crc16 computes for S, and fails, with the
\* checksum failure, when one bit of S or of the two checksum bytes is flipped.
C12_CrcRoundTrip ==
    Validated =>
        /\ response = Intact \/ OneBitFlipped(response)
        /\ response = Intact =>
              /\ CrcPasses(response)
              /\ diag = "none" /\ raised # "CommError"
        /\ OneBitFlipped(response) =>
              /\ ~CrcPasses(response)
              /\ diag = "ChecksumError" /\ raised = "CommError"

\* C12 witness: a response with one bit of its low checksum byte flipped was
\* rejected
C12_Witness ==
    /\ Rejected
    /\ Len(crc_data) >= 2
    /\ OneBitFlipped(response)
    /\ response[Len(response)] # Intact[Len(response)]
    /\ diag = "ChecksumError"

----------------------------------------------------------------------------
(* C13: get_version *)

\* the decimal text of n, at least width digits
Decimal(n, width) == Zeros(width - Len(Digits(n, 10))) \o Digits(n, 10)

\* the version the claim reads off the response bytes r[4] .. r[8]
VersionOf(r) ==
    [kind |-> "dict",
     hardware |-> Ratio(r[5], 100),
     software |-> Ratio(r[6], 100),
     software_date |-> PyStr(Decimal(r[7] + 2000, 4) \o <<"-">>
                             \o Decimal(r[8], 2) \o <<"-">> \o Decimal(r[9], 2))]

\* C13 as stated: get_version sends the read frame for 0x00E1 with count 5;
\* on an accepted response r it returns hardware r[4]/100, software r[5]/100
\* and the date YYYY-MM-DD of year r[6] + 2000, month r[7], day r[8]; when
\* the read fails it fails with the same error and returns nothing.
C13_VersionDecoded ==
    call.op = "get_version" =>
        /\ packet = <<126, 0, 7, 1, 0, 225, 5>> \o RefCrcBytes(<<7, 1, 0, 225, 5>>)
        /\ \A k \in 1..Len(txlog) : txlog[k] = packet
        /\ (Finished /\ Accepted) =>
              /\ raised = "none"
              /\ result.kind = "dict"
              /\ result = VersionOf(response)
        /\ (Finished /\ Rejected) =>
              /\ raised = "CommError"
              /\ result = NoneValue

----------------------------------------------------------------------------
(* C14: reset_to_factory_defaults *)

\* C14: reset_to_factory_defaults makes one write-type exchange, whose frame
\* is the write frame for register 0x00D9 with value 0x55; the settle sleep
\* (time.sleep(3), logged as 3000 ms) is the last thing the call does, and
\* only when the exchange succeeded; when
\* the exchange fails the CommError reaches the caller and the call ends
\* with no settle sleep and no further write or read.
C14_ResetExchangeThenSettle ==
    call.op = "reset_to_factory_defaults" =>
        /\ packet = <<126, 0, 8, 1, 0, 217, 85>> \o RefCrcBytes(<<8, 1, 0, 217, 85>>)
        /\ Len(txlog) <= 1
        /\ \A k \in 1..Len(txlog) : txlog[k] = packet
        /\ Len(reads) <= 2
        /\ Validated => Len(txlog) = 1 /\ Len(reads) \in {1, 2}
        /\ returned = NoneValue /\ result = NoneValue
        /\ (\E k \in 1..Len(sleeps) : sleeps[k] = 3000)
              <=> (Finished /\ Accepted)
        /\ (Finished /\ Accepted) =>
              /\ raised = "none"
              /\ sleeps \in {<<200, 3000>>, <<200, 500, 3000>>}
        /\ (Finished /\ Rejected) =>
              /\ raised = "CommError"
              /\ sleeps \in {<<200>>, <<200, 500>>}
              /\ Len(sleeps) = Len(reads)

\* C14 witness: a reset whose exchange needed the retry has slept its settle
\* period and returned
C14_Witness ==
    /\ call.op = "reset_to_factory_defaults"
    /\ Finished
    /\ Accepted
    /\ Len(reads) = 2
    /\ sleeps = <<200, 500, 3000>>

----------------------------------------------------------------------------
(* C15: read_sensor *)

\* the UTF-8 bytes of one character
Utf8EncodeChar(c) ==
    IF c < 128 THEN <<c>>
    ELSE IF c < 2048 THEN <<192 + (c \div 64), 128 + (c % 64)>>
    ELSE IF c < 65536
         THEN <<224 + (c \div 4096), 128 + ((c \div 64) % 64), 128 + (c % 64)>>
    ELSE <<240 + (c \div 262144), 128 + ((c \div 4096) % 64),
           128 + ((c \div 64) % 64), 128 + (c % 64)>>

\* the text is the chunks read, in order, decoded: encoding it gives them back
TextOfChunks(value, chunks) ==
    /\ value = PyText(value.codepoints)
    /\ JoinBytes(MapSeq(Utf8EncodeChar, value.codepoints)) = JoinBytes(chunks)

\* C15 as stated: read_sensor reads once for each poll that reports data
\* and stops at the first that reports none; it returns the chunks read,
\* joined in order and decoded as text, and an absent result exactly when
\* the first poll reported no data; it never writes, computes no CRC and
\* never fails with CommError.
C15_SensorReturnsTextOrNothing ==
    sensor.state # "idle" =>
        /\ \A k \in 1..Len(sensor.chunks) : sensor.chunks[k] # <<>>
        /\ sensor.naps = [k \in 1..Len(sensor.chunks) |-> 5]
        /\ txlog = <<>> /\ packet = <<>> /\ reads = <<>>
        /\ diag = "none" /\ raised = "none"
        /\ sensor.raised # "CommError"
        /\ sensor.state = "polling" =>
              sensor.result = NoneValue /\ sensor.raised = "none"
        /\ sensor.state = "returned" =>
              /\ sensor.raised = "none"
              /\ sensor.result = NoneValue <=> sensor.chunks = <<>>
              /\ sensor.chunks # <<>> =>
                    TextOfChunks(sensor.result, sensor.chunks)

----------------------------------------------------------------------------
(* C16: the order of the validation *)

\* the first of the three checks, in the stated order, that r fails
FirstFailure(r) ==
    IF r = <<>> THEN "NoResponse"
    ELSE IF ~CrcPasses(r) THEN "ChecksumError"
    ELSE IF ~AckPasses(r) THEN "NoResponse"
    ELSE "none"

\* C16: the validation reports the first failing check in the order: nothing
\* read after the retry (no-response), CRC mismatch (checksum failure, also
\* when the first byte is wrong too), first byte not 0x02 (no-response);
\* every failure is raised as CommError, and without a failure none is.
C16_ValidationOrder ==
    Validated =>
        /\ diag = FirstFailure(response)
        /\ response = <<>> => (Len(reads) = 2 /\ reads = << <<>>, <<>> >>)
        /\ (response # <<>> /\ ~CrcPasses(response) /\ ~AckPasses(response))
              => diag = "ChecksumError"
        /\ (diag = "NoResponse" /\ response # <<>>)
              => (CrcPasses(response) /\ response[1] # 2)
        /\ diag # "none" => raised = "CommError"
        /\ diag = "none" => raised # "CommError"
        /\ pc = "Failed" => diag # "none"
        /\ pc = "Success" => diag = "none"

\* C16 witness: a response with the right CRC and a first byte other than
\* 0x02 was rejected as no response
C16_Witness ==
    /\ Rejected
    /\ response # <<>>
    /\ CrcPasses(response)
    /\ ~AckPasses(response)
    /\ diag = "NoResponse"

----------------------------------------------------------------------------
(* C17: the phases of a register call *)

PhaseOrder ==
    { <<"Idle", "Sending">>, <<"Sending", "AwaitingDrain">>,
      <<"AwaitingDrain", "Reading1">>, <<"Reading1", "ReadingRetry">>,
      <<"Reading1", "Validating">>, <<"ReadingRetry", "Validating">>,
      <<"Validating", "Success">>, <<"Validating", "Failed">>,
      <<"Success", "Idle">>, <<"Failed", "Idle">> }

\* the step issues a read()
ReadIssued == Len(reads') > Len(reads)

\* what every step of the driver and of its environment respects
PhaseStep ==
    /\ pc' # pc => <<pc, pc'>> \in PhaseOrder
    /\ Len(txlog') > Len(txlog) =>
          (pc = "Sending" /\ pc' = "AwaitingDrain" /\ reads = <<>>)
    /\ (pc = "AwaitingDrain" /\ pc' # pc) =>
          (txdone /\ sleeps = <<>> /\ sleeps' = <<200>> /\ ~ReadIssued)
    /\ ReadIssued =>
          /\ txlog = <<packet>>
          /\ txdone
          /\ \/ pc = "Reading1" /\ reads = <<>> /\ sleeps' = <<200>>
             \/ pc = "ReadingRetry" /\ reads = << <<>> >>
                  /\ sleeps = <<200>> /\ sleeps' = <<200, 500>>
    /\ (pc = "Reading1" /\ pc' # pc) =>
          (ReadIssued /\ (pc' = "ReadingRetry" <=> reads'[1] = <<>>))
    /\ (pc = "ReadingRetry" /\ pc' # pc) => ReadIssued
    /\ (pc = "Validating" /\ pc' # pc) =>
          /\ reads' = reads
          /\ Len(reads) \in {1, 2}
          /\ response = reads[Len(reads)]
    /\ pc \in {"Validating", "Success", "Failed"} =>
          (~ReadIssued /\ txlog' = txlog)

\* C17: a register call goes through its phases only in the order Idle,
\* Sending, AwaitingDrain, Reading (first attempt), Reading (retry, only
\* when the first read was empty), Validating, Success or Failed: the write
\* comes before every read, no read is issued before the channel reports
\* transmit-complete, the first read follows the 200 ms delay, the retry the
\* 500 ms delay, and the validation follows the last read.
C17_PhaseOrder == [][PhaseStep]_vars

\* C17 witness: a call that waited for the drain and took the retry has been
\* through every phase up to Success
C17_Witness ==
    /\ pc = "Success"
    /\ polls >= 1
    /\ Len(reads) = 2
    /\ sleeps = <<200, 500>>
    /\ txlog = <<packet>>

----------------------------------------------------------------------------
(* C18: termination of a register call *)

InCall == pc \in {"Sending", "AwaitingDrain", "Reading1", "ReadingRetry",
                  "Validating"}

\* while the channel has not reported transmit-complete, no step takes the
\* call out of AwaitingDrain, reads, returns or raises
NoDrainTimeout ==
    (pc = "AwaitingDrain" /\ ~txdone) =>
        /\ pc' = "AwaitingDrain"
        /\ reads' = reads /\ reads = <<>>
        /\ raised' = raised /\ raised = "none"
        /\ returned' = returned /\ result' = result

\* C18: when the channel reports transmit-complete after every write, every
\* register call reaches Success or Failed, with at most two reads; and as
\* long as the channel has not reported it the call stays in AwaitingDrain,
\* reads nothing and neither returns nor raises (the drain poll has no
\* timeout).
C18_TerminatesIffDrained ==
    /\ InCall ~> (pc \in {"Success", "Failed"})
    /\ [](Len(reads) <= 2)
    /\ [][NoDrainTimeout]_vars

\* C18 witness: a call that found the transmitter busy, waited, and ended
\* in Failed after its two reads
C18_Witness ==
    /\ pc = "Failed"
    /\ polls >= 1
    /\ Len(reads) = 2

----------------------------------------------------------------------------
(* C19: one request, its own response *)

\* C19 as stated: the response a register call accepts is the device's reply
\* to that call's own request, never bytes that were pending before its
\* write or that the device sent for another reason (a late reply to an
\* earlier call, unsolicited barcode output).
C19_AcceptsOnlyOwnReply ==
    (Accepted /\ call.op # "none") =>
        /\ response # <<>>
        /\ resporigin = "reply"
====
